---- MODULE Spec2Model ----
(***************************************************************************)
(* Model of accounting_app.py: the session state (four record stores, the  *)
(* general ledger and the uploaded statements), the posting rules, the     *)
(* form handlers that call them, the statement generators that read the    *)
(* ledger (Spec) and the ratios of the Analytics page (SpecAnalytics).     *)
(*                                                                         *)
(* Money is a float in the program.  Here an amount is an integer number   *)
(* of 1/Scale currency units, Scale being divisible by 100 and by every     *)
(* useful life the model enumerates, so that a cent is a whole number of   *)
(* units and the straight-line division of line 167 is exact: the model is *)
(* the program under real arithmetic.                                      *)
(* A date is represented by its calendar year, the only part of a date the *)
(* program ever reads (lines 160, 161 and 587); "now" is the year of the   *)
(* last reading of the clock.                                              *)
(***************************************************************************)
EXTENDS Integers, Sequences, FiniteSets, TLC

VARIABLES receivables, payables, inventory, fixed_assets, general_ledger,
          uploaded_is, uploaded_bs, now, result, ops, depreciation_runs

vars == <<receivables, payables, inventory, fixed_assets, general_ledger,
          uploaded_is, uploaded_bs, now, result, ops, depreciation_runs>>

stores == <<receivables, payables, inventory, fixed_assets>>

\* the statements uploaded on the Analytics page
uploads == <<uploaded_is, uploaded_bs>>

----------------------------------------------------------------------------
(* Bounds of the model *)

MaxYear == 1
MaxLife == 2
MaxQty == 2
MaxOps == 3

RECURSIVE Factorial(_)
Factorial(n) == IF n <= 1 THEN 1 ELSE n * Factorial(n - 1)

\* model units per currency unit, and per 0.01 of it
Scale == 100 * Factorial(MaxLife)

Cent == Scale \div 100

Years == 0..MaxYear
Amounts == {0, Cent}
Salvages == {0, 2 * Cent}
\* <<unit cost, selling price>> pairs offered to the inventory form
PriceList == {<<0, 0>>, <<Cent, 2 * Cent>>}
Quantities == {MaxQty}
\* less than, equal to and more than a full stock
SaleQuantities == {1, MaxQty, MaxQty + 1}
Lives == {1, MaxLife}
RecordTypes == {"Cash", "Credit"}
Customers == {"", "Acme"}
SaleCustomers == {""}
Vendors == {"", "Rent"}
Items == {"Widget", "Gadget"}
ItemNames == {""} \cup Items
AssetNames == {"", "Van"}
Categories == {"Vehicle"}
Locations == {"hq"}
Notes == {""}

----------------------------------------------------------------------------
(* Helpers over sequences *)

\* gl[gl['Account'] == account]['Debit'].sum(), over the first n entries
RECURSIVE SumDebitTo(_, _, _)
SumDebitTo(gl, account, n) ==
    IF n = 0 THEN 0
    ELSE (IF gl[n].Account = account THEN gl[n].Debit ELSE 0)
         + SumDebitTo(gl, account, n - 1)

SumDebit(gl, account) == SumDebitTo(gl, account, Len(gl))

RECURSIVE SumCreditTo(_, _, _)
SumCreditTo(gl, account, n) ==
    IF n = 0 THEN 0
    ELSE (IF gl[n].Account = account THEN gl[n].Credit ELSE 0)
         + SumCreditTo(gl, account, n - 1)

SumCredit(gl, account) == SumCreditTo(gl, account, Len(gl))

\* the 'Debit' column summed over the first n rows
RECURSIVE TotalDebitTo(_, _)
TotalDebitTo(gl, n) == IF n = 0 THEN 0 ELSE gl[n].Debit + TotalDebitTo(gl, n - 1)

TotalDebit(gl) == TotalDebitTo(gl, Len(gl))

RECURSIVE TotalCreditTo(_, _)
TotalCreditTo(gl, n) == IF n = 0 THEN 0 ELSE gl[n].Credit + TotalCreditTo(gl, n - 1)

TotalCredit(gl) == TotalCreditTo(gl, Len(gl))

IsPrefix(s, t) ==
    /\ Len(s) <= Len(t)
    /\ \A i \in 1..Len(s) : s[i] = t[i]

Upper(s) ==
    CASE s = "Vehicle" -> "VEHICLE"
      [] s = "hq" -> "HQ"
      [] OTHER -> s

\* a rejected submission is enumerated once per failed check: the fields the
\* validation does not read are then left at their defaults
Representative(accepted, defaults) == accepted \/ defaults

Outcome(op, status, message, detail) ==
    [op |-> op, status |-> status, message |-> message, detail |-> detail]

----------------------------------------------------------------------------
(* General ledger *)

\* datetime.now() to the second: a reading that differs from one operation to
\* the next, here the number of operations performed so far
Timestamp == ops

\* bound of the model: at most MaxOps operations change the stores or the ledger
CanPost == ops < MaxOps

\* the date given to a form: any date; the model books every form on year 0
DateInputs == {0}

Description(template, args) == [template |-> template, args |-> args]

\* mutant: the new entry put in front of the ledger
post_to_gl_prepend(gl, date, account, debit, credit, description) ==
    <<[Date |-> date, Account |-> account, Debit |-> debit,
       Credit |-> credit, Description |-> description]>> \o gl

\* mutant: entries to the Inventory account booked on the debit side
post_to_gl_inventory_debited(gl, date, account, debit, credit, description) ==
    Append(gl, [Date |-> date, Account |-> account,
                Debit |-> IF account = "Inventory" THEN credit ELSE debit,
                Credit |-> IF account = "Inventory" THEN debit ELSE credit,
                Description |-> description])

post_to_gl(gl, date, account, debit, credit, description) ==
    Append(gl, [Date |-> date, Account |-> account, Debit |-> debit,
                Credit |-> credit, Description |-> description])

----------------------------------------------------------------------------
(* Receivables and payables *)

\* mutant: a credit sale debited to Cash
add_receivable_gl_always_cash(gl, date, customer, record_type, amount, description) ==
    post_to_gl(
      post_to_gl(gl, date, "Cash", amount, 0,
                 Description("Cash Sale to {}: {}", <<customer, description>>)),
      date, "Sales Revenue", 0, amount,
      Description("Cash Sale to {}: {}", <<customer, description>>))

add_receivable_gl(gl, date, customer, record_type, amount, description) ==
    IF record_type = "Cash"
    THEN post_to_gl(
           post_to_gl(gl, date, "Cash", amount, 0,
                      Description("Cash Sale to {}: {}", <<customer, description>>)),
           date, "Sales Revenue", 0, amount,
           Description("Cash Sale to {}: {}", <<customer, description>>))
    ELSE post_to_gl(
           post_to_gl(gl, date, "Accounts Receivable", amount, 0,
                      Description("Credit Sale to {}: {}", <<customer, description>>)),
           date, "Sales Revenue", 0, amount,
           Description("Credit Sale to {}: {}", <<customer, description>>))

add_receivable_record(date, customer, record_type, amount, description) ==
    /\ CanPost
    /\ receivables' = Append(receivables,
                             [Date |-> date, Customer |-> customer,
                              Type |-> record_type, Amount |-> amount,
                              Description |-> description])
    /\ general_ledger' = add_receivable_gl(general_ledger, date, customer,
                                           record_type, amount, description)
    /\ result' = Outcome("receivable", "success",
                         "Receivable record added successfully and posted to GL!", 0)
    /\ ops' = ops + 1
    /\ UNCHANGED <<uploads, payables, inventory, fixed_assets, now, depreciation_runs>>

\* mutant: the amount is not checked
receivable_valid_name_only(r_customer, r_amount) == r_customer # ""

receivable_valid(r_customer, r_amount) == r_customer # "" /\ r_amount > 0

receivable_submit(r_date, r_customer, r_type, r_amount, r_description) ==
    IF receivable_valid(r_customer, r_amount)
    THEN add_receivable_record(r_date, r_customer, r_type, r_amount, r_description)
    ELSE /\ result' = Outcome("receivable", "error",
                              "Please fill in Customer Name and Amount.", 0)
         /\ UNCHANGED <<uploads, stores, general_ledger, now, ops, depreciation_runs>>

receivable_form ==
    \E r_date \in DateInputs, r_customer \in Customers, r_type \in RecordTypes,
       r_amount \in Amounts, r_description \in Notes :
        /\ Representative(receivable_valid(r_customer, r_amount), r_type = "Cash")
        /\ receivable_submit(r_date, r_customer, r_type, r_amount, r_description)

\* mutant: the cash leg posted on the debit side
add_payable_gl_cash_debit(gl, date, vendor_category, amount, description) ==
    post_to_gl(
      post_to_gl(gl, date, "Expenses", amount, 0,
                 Description("Expense: {} - {}", <<vendor_category, description>>)),
      date, "Cash", amount, 0,
      Description("Cash Payment for {}: {}", <<vendor_category, description>>))

add_payable_gl(gl, date, vendor_category, amount, description) ==
    post_to_gl(
      post_to_gl(gl, date, "Expenses", amount, 0,
                 Description("Expense: {} - {}", <<vendor_category, description>>)),
      date, "Cash", 0, amount,
      Description("Cash Payment for {}: {}", <<vendor_category, description>>))

add_payable_record(date, vendor_category, amount, description) ==
    /\ CanPost
    /\ payables' = Append(payables,
                          [Date |-> date, Vendor_Category |-> vendor_category,
                           Amount |-> amount, Description |-> description])
    /\ general_ledger' = add_payable_gl(general_ledger, date, vendor_category,
                                        amount, description)
    /\ result' = Outcome("payable", "success",
                         "Payable record added successfully and posted to GL!", 0)
    /\ ops' = ops + 1
    /\ UNCHANGED <<uploads, receivables, inventory, fixed_assets, now, depreciation_runs>>

payable_valid(p_vendor_category, p_amount) == p_vendor_category # "" /\ p_amount > 0

payable_submit(p_date, p_vendor_category, p_amount, p_description) ==
    IF payable_valid(p_vendor_category, p_amount)
    THEN add_payable_record(p_date, p_vendor_category, p_amount, p_description)
    ELSE /\ result' = Outcome("payable", "error",
                              "Please fill in Vendor/Expense Category and Amount.", 0)
         /\ UNCHANGED <<uploads, stores, general_ledger, now, ops, depreciation_runs>>

payable_form ==
    \E p_date \in DateInputs, p_vendor_category \in Vendors, p_amount \in Amounts,
       p_description \in Notes :
        payable_submit(p_date, p_vendor_category, p_amount, p_description)

----------------------------------------------------------------------------
(* Inventory *)

HasItem(inv, item) == \E i \in 1..Len(inv) : inv[i].Item = item

\* index of the first row of the item (.index[0] / .iloc[0])
ItemIndex(inv, item) ==
    CHOOSE i \in 1..Len(inv) :
        /\ inv[i].Item = item
        /\ \A j \in 1..(i - 1) : inv[j].Item # item

\* mutant: the submitted quantity added to the stock of an existing item
upsert_inventory_additive(inv, item_name, quantity, unit_cost, selling_price, stamp) ==
    IF HasItem(inv, item_name)
    THEN [inv EXCEPT ![ItemIndex(inv, item_name)] =
             [@ EXCEPT !.Quantity = @ + quantity, !.Unit_Cost = unit_cost,
                       !.Selling_Price = selling_price, !.Last_Updated = stamp]]
    ELSE Append(inv, [Item |-> item_name, Quantity |-> quantity,
                      Unit_Cost |-> unit_cost, Selling_Price |-> selling_price,
                      Last_Updated |-> stamp])

upsert_inventory(inv, item_name, quantity, unit_cost, selling_price, stamp) ==
    IF HasItem(inv, item_name)
    THEN [inv EXCEPT ![ItemIndex(inv, item_name)] =
             [@ EXCEPT !.Quantity = quantity, !.Unit_Cost = unit_cost,
                       !.Selling_Price = selling_price, !.Last_Updated = stamp]]
    ELSE Append(inv, [Item |-> item_name, Quantity |-> quantity,
                      Unit_Cost |-> unit_cost, Selling_Price |-> selling_price,
                      Last_Updated |-> stamp])

inventory_valid(item_name, quantity, unit_cost, selling_price) ==
    item_name # "" /\ quantity >= 0 /\ unit_cost >= 0 /\ selling_price >= 0

inventory_submit(item_name, quantity, unit_cost, selling_price) ==
    IF inventory_valid(item_name, quantity, unit_cost, selling_price)
    THEN /\ CanPost
         /\ inventory' = upsert_inventory(inventory, item_name, quantity,
                                          unit_cost, selling_price, Timestamp)
         /\ result' = IF HasItem(inventory, item_name)
                      THEN Outcome("inventory", "success", "Inventory for '{}' updated.", 0)
                      ELSE Outcome("inventory", "success", "New inventory item '{}' added.", 0)
         /\ ops' = ops + 1
         /\ UNCHANGED <<uploads, receivables, payables, fixed_assets, general_ledger,
                        now, depreciation_runs>>
    ELSE /\ result' = Outcome("inventory", "error",
                              "Please fill in all inventory details correctly.", 0)
         /\ UNCHANGED <<uploads, stores, general_ledger, now, ops, depreciation_runs>>

inventory_form ==
    \E item_name \in ItemNames, quantity \in Quantities, price \in PriceList :
        inventory_submit(item_name, quantity, price[1], price[2])

----------------------------------------------------------------------------
(* Point of sale *)

\* mutant: the stock check off by one
insufficient_stock_off_by_one(quantity, item_row) == quantity > item_row.Quantity + 1

\* mutant: the comparison reversed
insufficient_stock_reversed(quantity, item_row) == quantity < item_row.Quantity

insufficient_stock(quantity, item_row) == quantity > item_row.Quantity

\* mutant: cost of goods sold computed from the selling price
sale_gl_cogs_at_price(gl, date, item, quantity, customer, sale_type, item_row) ==
    LET total_sales_revenue == quantity * item_row.Selling_Price
        cost_of_goods_sold == quantity * item_row.Selling_Price
        args == <<ToString(quantity), item, customer>>
        gl1 == IF sale_type = "Cash"
               THEN post_to_gl(gl, date, "Cash", total_sales_revenue, 0,
                               Description("Cash Sale of {} units of {} to {}", args))
               ELSE post_to_gl(gl, date, "Accounts Receivable", total_sales_revenue, 0,
                               Description("Credit Sale of {} units of {} to {}", args))
        gl2 == post_to_gl(gl1, date, "Sales Revenue", 0, total_sales_revenue,
                          Description("Sale of {} units of {} to {}", args))
        gl3 == post_to_gl(gl2, date, "Cost of Goods Sold", cost_of_goods_sold, 0,
                          Description("COGS for {} units of {} sold to {}", args))
    IN  post_to_gl(gl3, date, "Inventory", 0, cost_of_goods_sold,
                   Description("Inventory reduction for {} units of {} sold to {}", args))

sale_gl(gl, date, item, quantity, customer, sale_type, item_row) ==
    LET total_sales_revenue == quantity * item_row.Selling_Price
        cost_of_goods_sold == quantity * item_row.Unit_Cost
        args == <<ToString(quantity), item, customer>>
        gl1 == IF sale_type = "Cash"
               THEN post_to_gl(gl, date, "Cash", total_sales_revenue, 0,
                               Description("Cash Sale of {} units of {} to {}", args))
               ELSE post_to_gl(gl, date, "Accounts Receivable", total_sales_revenue, 0,
                               Description("Credit Sale of {} units of {} to {}", args))
        gl2 == post_to_gl(gl1, date, "Sales Revenue", 0, total_sales_revenue,
                          Description("Sale of {} units of {} to {}", args))
        gl3 == post_to_gl(gl2, date, "Cost of Goods Sold", cost_of_goods_sold, 0,
                          Description("COGS for {} units of {} sold to {}", args))
    IN  post_to_gl(gl3, date, "Inventory", 0, cost_of_goods_sold,
                   Description("Inventory reduction for {} units of {} sold to {}", args))

sale_inventory(inv, item, quantity, stamp) ==
    [inv EXCEPT ![ItemIndex(inv, item)] =
        [@ EXCEPT !.Quantity = @ - quantity, !.Last_Updated = stamp]]

add_sale_record(date, item, quantity, customer, sale_type) ==
    IF ~HasItem(inventory, item)
    THEN /\ result' = Outcome("sale", "error", "Item not found in inventory.", 0)
         /\ UNCHANGED <<uploads, stores, general_ledger, now, ops, depreciation_runs>>
    ELSE LET item_row == inventory[ItemIndex(inventory, item)]
         IN  IF insufficient_stock(quantity, item_row)
             THEN /\ result' = Outcome("sale", "error",
                                       "Not enough stock. Only {} units available.",
                                       item_row.Quantity)
                  /\ UNCHANGED <<uploads, stores, general_ledger, now, ops, depreciation_runs>>
             ELSE /\ CanPost
                  /\ inventory' = sale_inventory(inventory, item, quantity, Timestamp)
                  /\ general_ledger' = sale_gl(general_ledger, date, item, quantity,
                                               customer, sale_type, item_row)
                  /\ result' = Outcome("sale", "success",
                                       "Sale recorded successfully and inventory updated!", 0)
                  /\ ops' = ops + 1
                  /\ UNCHANGED <<uploads, receivables, payables, fixed_assets, now,
                                 depreciation_runs>>

\* add_sale_record is called with any item name; through pos_form's
\* selectbox only stocked names arrive, so its first branch is then dead.
pos_form ==
    \E sale_date \in DateInputs, selected_item \in Items,
       sale_quantity \in SaleQuantities, customer_name \in SaleCustomers,
       sale_type \in RecordTypes :
        add_sale_record(sale_date, selected_item, sale_quantity, customer_name, sale_type)

----------------------------------------------------------------------------
(* Fixed assets and depreciation *)

generate_asset_tag(company, category, year, location) ==
    Upper(company) \o "-" \o Upper(category) \o "-" \o ToString(year)
        \o "-" \o Upper(location)

fixed_asset_gl(gl, acquisition_date, asset_name, asset_tag, cost) ==
    post_to_gl(
      post_to_gl(gl, acquisition_date, "Fixed Assets", cost, 0,
                 Description("Acquisition of {} ({})", <<asset_name, asset_tag>>)),
      acquisition_date, "Cash", 0, cost,
      Description("Cash payment for {}", <<asset_name>>))

fixed_asset_valid(asset_name, asset_category, asset_location, cost, useful_life) ==
    /\ asset_name # "" /\ cost > 0 /\ useful_life > 0
    /\ asset_category # "" /\ asset_location # ""

fixed_asset_submit(asset_name, asset_category, asset_location, acquisition_date, cost, salvage_value, useful_life) ==
    IF fixed_asset_valid(asset_name, asset_category, asset_location, cost, useful_life)
    THEN LET asset_tag == generate_asset_tag("YOUR_COMPANY", asset_category,
                                             acquisition_date, asset_location)
         IN  /\ CanPost
             /\ fixed_assets' = Append(fixed_assets,
                    [Asset_Tag |-> asset_tag, Asset_Name |-> asset_name,
                     Category |-> asset_category, Location |-> asset_location,
                     Acquisition_Date |-> acquisition_date, Cost |-> cost,
                     Salvage_Value |-> salvage_value, Useful_Life |-> useful_life,
                     Accumulated_Depreciation |-> 0])
             /\ general_ledger' = fixed_asset_gl(general_ledger, acquisition_date,
                                                 asset_name, asset_tag, cost)
             /\ result' = Outcome("fixed_asset", "success",
                                  "Fixed asset '{}' added with tag '{}' and posted to GL.", 0)
             /\ ops' = ops + 1
             /\ UNCHANGED <<uploads, receivables, payables, inventory, now, depreciation_runs>>
    ELSE /\ result' = Outcome("fixed_asset", "error",
                              "Please fill in all asset details correctly.", 0)
         /\ UNCHANGED <<uploads, stores, general_ledger, now, ops, depreciation_runs>>

fixed_asset_form ==
    \E asset_name \in AssetNames, asset_category \in Categories,
       asset_location \in Locations, acquisition_date \in DateInputs,
       cost \in Amounts, salvage_value \in Salvages, useful_life \in Lives :
        /\ Representative(fixed_asset_valid(asset_name, asset_category, asset_location,
                                            cost, useful_life),
                          salvage_value = 0 /\ useful_life = 1)
        /\ fixed_asset_submit(asset_name, asset_category, asset_location,
                              acquisition_date, cost, salvage_value, useful_life)

\* mutant: the salvage value left out of the depreciable amount
annual_depreciation_no_salvage(row) == row.Cost \div row.Useful_Life

\* mutant: nothing charged once the depreciable amount is used up
annual_depreciation_capped(row) ==
    IF row.Accumulated_Depreciation >= row.Cost - row.Salvage_Value
    THEN 0
    ELSE (row.Cost - row.Salvage_Value) \div row.Useful_Life

annual_depreciation(row) == (row.Cost - row.Salvage_Value) \div row.Useful_Life

\* mutant: the guard looks at the year before
depreciation_posted_last_year(gl, current_year) ==
    \E i \in 1..Len(gl) :
        gl[i].Account = "Depreciation Expense" /\ gl[i].Date = current_year - 1

depreciation_posted(gl, current_year) ==
    \E i \in 1..Len(gl) :
        gl[i].Account = "Depreciation Expense" /\ gl[i].Date = current_year

\* mutant: the loop posts to the ledger and leaves the register as it is
RECURSIVE depreciate_from_ledger_only(_, _, _, _)
depreciate_from_ledger_only(k, gl, fa, date) ==
    IF k > Len(fa) THEN <<gl, fa>>
    ELSE LET row == fa[k]
             d == (row.Cost - row.Salvage_Value) \div row.Useful_Life
             memo == Description("Annual depreciation for {}", <<row.Asset_Name>>)
             gl1 == Append(gl, [Date |-> date, Account |-> "Depreciation Expense",
                                Debit |-> d, Credit |-> 0, Description |-> memo])
             gl2 == Append(gl1, [Date |-> date, Account |-> "Accumulated Depreciation",
                                 Debit |-> 0, Credit |-> d, Description |-> memo])
         IN  depreciate_from_ledger_only(k + 1, gl2, fa, date)

\* the loop of lines 164-174 over rows k..Len(fa); returns <<ledger, register>>
RECURSIVE depreciate_from(_, _, _, _)
depreciate_from(k, gl, fa, date) ==
    IF k > Len(fa) THEN <<gl, fa>>
    ELSE LET row == fa[k]
         IN  IF row.Useful_Life > 0
             THEN LET d == annual_depreciation(row)
                      memo == Description("Annual depreciation for {}", <<row.Asset_Name>>)
                      gl1 == post_to_gl(gl, date, "Depreciation Expense", d, 0, memo)
                      gl2 == post_to_gl(gl1, date, "Accumulated Depreciation", 0, d, memo)
                      fa1 == [fa EXCEPT ![k].Accumulated_Depreciation = @ + d]
                  IN  depreciate_from(k + 1, gl2, fa1, date)
             ELSE depreciate_from(k + 1, gl, fa, date)

\* outcomes of the calls made so far in the calendar year of the call
runs_in_year(date) == IF date = now THEN depreciation_runs ELSE {}

calculate_and_post_depreciation(date) ==
    IF fixed_assets = <<>>
    THEN /\ result' = Outcome("depreciation", "warning",
                              "No fixed assets to depreciate.", 0)
         /\ depreciation_runs' = runs_in_year(date) \cup {"warning"}
         /\ now' = date
         /\ UNCHANGED <<uploads, stores, general_ledger, ops>>
    ELSE IF depreciation_posted(general_ledger, date)
    THEN /\ result' = Outcome("depreciation", "warning",
                              "Depreciation for {} has already been posted.", date)
         /\ depreciation_runs' = runs_in_year(date) \cup {"warning"}
         /\ now' = date
         /\ UNCHANGED <<uploads, stores, general_ledger, ops>>
    ELSE LET done == depreciate_from(1, general_ledger, fixed_assets, date)
         IN  /\ CanPost
             /\ general_ledger' = done[1]
             /\ fixed_assets' = done[2]
             /\ result' = Outcome("depreciation", "success",
                                  "Depreciation for {} calculated and posted for all assets.",
                                  date)
             /\ depreciation_runs' = runs_in_year(date) \cup {"success"}
             /\ now' = date
             /\ ops' = ops + 1
             /\ UNCHANGED <<uploads, receivables, payables, inventory>>

\* the button passes datetime.now(): the year last read, or a later one
depreciation_button ==
    \E today \in {now, now + 1} \cap Years :
        calculate_and_post_depreciation(today)

----------------------------------------------------------------------------
(* Statement generators: functions of the ledger *)

\* the accounts in groupby order (sorted)
ChartOfAccounts ==
    <<"Accounts Payable", "Accounts Receivable", "Accumulated Depreciation",
      "Cash", "Cost of Goods Sold", "Depreciation Expense", "Expenses",
      "Fixed Assets", "Inventory", "Sales Revenue">>

Abs(x) == IF x < 0 THEN -x ELSE x

\* x > 0.01, for an amount x in 1/Scale units
OverTolerance(x) == x * 100 > Scale

HasAccount(gl, account) == \E i \in 1..Len(gl) : gl[i].Account = account

\* rows of tb_display for the accounts k..10 of the chart
RECURSIVE tb_display(_, _)
tb_display(gl, k) ==
    IF k > Len(ChartOfAccounts) THEN <<>>
    ELSE LET account == ChartOfAccounts[k]
             Balance == SumDebit(gl, account) - SumCredit(gl, account)
             rest == tb_display(gl, k + 1)
         IN  IF HasAccount(gl, account) /\ OverTolerance(Abs(Balance))
             THEN IF Balance > 0
                  THEN <<[Account |-> account, Debit |-> Balance, Credit |-> 0]>> \o rest
                  ELSE <<[Account |-> account, Debit |-> 0, Credit |-> Abs(Balance)]>> \o rest
             ELSE rest

generate_trial_balance(gl) ==
    IF gl = <<>> THEN <<>>
    ELSE LET rows == tb_display(gl, 1)
         IN  IF rows = <<>> THEN <<>>
             ELSE Append(rows,
                    [Account |-> "Total",
                     Debit |-> TotalDebit(rows), Credit |-> TotalCredit(rows)])

\* mutant: depreciation left out of the operating expenses
generate_income_statement_no_depreciation(gl) ==
    IF gl = <<>> THEN <<>>
    ELSE LET revenue == SumCredit(gl, "Sales Revenue")
             cogs == SumDebit(gl, "Cost of Goods Sold")
             gross_profit == revenue - cogs
             expenses == SumDebit(gl, "Expenses")
             depreciation_expense == SumDebit(gl, "Depreciation Expense")
             net_income == gross_profit - expenses
         IN  << [Item |-> "Sales Revenue", Amount |-> revenue],
                [Item |-> "Less: Cost of Goods Sold", Amount |-> -cogs],
                [Item |-> "Gross Profit", Amount |-> gross_profit],
                [Item |-> "Less: Operating Expenses", Amount |-> -expenses],
                [Item |-> "Less: Depreciation Expense", Amount |-> -depreciation_expense],
                [Item |-> "Net Income (Loss)", Amount |-> net_income] >>

generate_income_statement(gl) ==
    IF gl = <<>> THEN <<>>
    ELSE LET revenue == SumCredit(gl, "Sales Revenue")
             cogs == SumDebit(gl, "Cost of Goods Sold")
             gross_profit == revenue - cogs
             expenses == SumDebit(gl, "Expenses")
             depreciation_expense == SumDebit(gl, "Depreciation Expense")
             total_operating_expenses == expenses + depreciation_expense
             net_income == gross_profit - total_operating_expenses
         IN  << [Item |-> "Sales Revenue", Amount |-> revenue],
                [Item |-> "Less: Cost of Goods Sold", Amount |-> -cogs],
                [Item |-> "Gross Profit", Amount |-> gross_profit],
                [Item |-> "Less: Operating Expenses", Amount |-> -expenses],
                [Item |-> "Less: Depreciation Expense", Amount |-> -depreciation_expense],
                [Item |-> "Net Income (Loss)", Amount |-> net_income] >>

\* mutant: the first line of the statement read instead of the last
last_amount_first(statement) ==
    IF statement = <<>> THEN 0 ELSE statement[1].Amount

\* income_statement['Amount'].iloc[-1] if not empty else 0.0
last_amount(statement) ==
    IF statement = <<>> THEN 0 ELSE statement[Len(statement)].Amount

generate_balance_sheet(gl) ==
    IF gl = <<>> THEN <<>>
    ELSE LET cash == SumDebit(gl, "Cash") - SumCredit(gl, "Cash")
             accounts_receivable == SumDebit(gl, "Accounts Receivable")
                                    - SumCredit(gl, "Accounts Receivable")
             inventory_amount == SumDebit(gl, "Inventory") - SumCredit(gl, "Inventory")
             fixed_assets_cost == SumDebit(gl, "Fixed Assets")
             accumulated_depreciation == SumCredit(gl, "Accumulated Depreciation")
             net_fixed_assets == fixed_assets_cost - accumulated_depreciation
             total_current_assets == cash + accounts_receivable + inventory_amount
             total_assets == total_current_assets + net_fixed_assets
             accounts_payable == SumCredit(gl, "Accounts Payable")
                                 - SumDebit(gl, "Accounts Payable")
             net_income == last_amount(generate_income_statement(gl))
             total_equity == 0 + net_income
             total_liabilities == accounts_payable
             total_liabilities_equity == total_liabilities + total_equity
         IN  << [Category |-> "Current Assets", Account |-> "Cash", Amount |-> cash],
                [Category |-> "Current Assets", Account |-> "Accounts Receivable",
                 Amount |-> accounts_receivable],
                [Category |-> "Current Assets", Account |-> "Inventory",
                 Amount |-> inventory_amount],
                [Category |-> "Total Current Assets", Account |-> "",
                 Amount |-> total_current_assets],
                [Category |-> "Non-Current Assets", Account |-> "Fixed Assets (Net)",
                 Amount |-> net_fixed_assets],
                [Category |-> "Total Assets", Account |-> "", Amount |-> total_assets],
                [Category |-> "Current Liabilities", Account |-> "Accounts Payable",
                 Amount |-> accounts_payable],
                [Category |-> "Total Liabilities", Account |-> "",
                 Amount |-> total_liabilities],
                [Category |-> "Equity", Account |-> "Owner's Equity (Simplified)",
                 Amount |-> total_equity],
                [Category |-> "Total Liabilities & Equity", Account |-> "",
                 Amount |-> total_liabilities_equity] >>

\* bs_df[bs_df['Category'] == category]['Amount'].iloc[0] if present else 0
category_amount(bs, category) ==
    IF \E i \in 1..Len(bs) : bs[i].Category = category
    THEN bs[CHOOSE i \in 1..Len(bs) :
                /\ bs[i].Category = category
                /\ \A j \in 1..(i - 1) : bs[j].Category # category].Amount
    ELSE 0

\* the words "Sale", "Payment", "Acquisition" found in a text (case-sensitive)
WordsIn(text) ==
    CASE text \in {"Cash Sale to {}: {}", "Credit Sale to {}: {}",
                   "Cash Sale of {} units of {} to {}",
                   "Credit Sale of {} units of {} to {}",
                   "Sale of {} units of {} to {}"} -> {"Sale"}
      [] text = "Cash Payment for {}: {}" -> {"Payment"}
      [] text = "Acquisition of {} ({})" -> {"Acquisition"}
      [] OTHER -> {}

\* Description.str.contains(word)
Contains(description, word) ==
    \/ word \in WordsIn(description.template)
    \/ \E i \in 1..Len(description.args) : word \in WordsIn(description.args[i])

\* Debit summed over the first n entries that are Cash debits mentioning word
RECURSIVE cash_debits_to(_, _, _)
cash_debits_to(gl, word, n) ==
    IF n = 0 THEN 0
    ELSE (IF /\ gl[n].Account = "Cash" /\ gl[n].Debit > 0
             /\ Contains(gl[n].Description, word)
          THEN gl[n].Debit ELSE 0) + cash_debits_to(gl, word, n - 1)

cash_debits(gl, word) == cash_debits_to(gl, word, Len(gl))

RECURSIVE cash_credits_to(_, _, _)
cash_credits_to(gl, word, n) ==
    IF n = 0 THEN 0
    ELSE (IF /\ gl[n].Account = "Cash" /\ gl[n].Credit > 0
             /\ Contains(gl[n].Description, word)
          THEN gl[n].Credit ELSE 0) + cash_credits_to(gl, word, n - 1)

cash_credits(gl, word) == cash_credits_to(gl, word, Len(gl))

generate_cash_flow_statement(gl) ==
    IF gl = <<>> THEN <<>>
    ELSE LET cash_in_from_sales == cash_debits(gl, "Sale")
             cash_out_for_expenses == cash_credits(gl, "Payment")
             net_cash_operating == cash_in_from_sales - cash_out_for_expenses
             cash_out_fixed_assets == cash_credits(gl, "Acquisition")
             net_cash_investing == -cash_out_fixed_assets
             net_cash_financing == 0
             net_increase_decrease_in_cash ==
                 net_cash_operating + net_cash_investing + net_cash_financing
             beginning_cash_balance == 0
             ending_cash_balance == beginning_cash_balance + net_increase_decrease_in_cash
         IN  << [Activity |-> "Net Cash from Operating Activities",
                 Amount |-> net_cash_operating],
                [Activity |-> "Net Cash from Investing Activities",
                 Amount |-> net_cash_investing],
                [Activity |-> "Net Cash from Financing Activities",
                 Amount |-> net_cash_financing],
                [Activity |-> "Net Increase (Decrease) in Cash",
                 Amount |-> net_increase_decrease_in_cash],
                [Activity |-> "Beginning Cash Balance", Amount |-> beginning_cash_balance],
                [Activity |-> "Ending Cash Balance", Amount |-> ending_cash_balance] >>

generate_statement_of_change_in_equity(gl) ==
    LET net_income == last_amount(generate_income_statement(gl))
        beginning_equity == 0
        ending_equity == beginning_equity + net_income
    IN  << [Item |-> "Beginning Equity Balance", Amount |-> beginning_equity],
           [Item |-> "Add: Net Income (Loss)", Amount |-> net_income],
           [Item |-> "Less: Dividends/Withdrawals (N/A in demo)", Amount |-> 0],
           [Item |-> "Ending Equity Balance", Amount |-> ending_equity] >>

----------------------------------------------------------------------------
(* Financial Statements page: one button per statement *)

Shown(op, status, message) ==
    /\ result' = Outcome(op, status, message, 0)
    /\ UNCHANGED <<uploads, stores, general_ledger, now, ops, depreciation_runs>>

trial_balance_button ==
    LET tb_df == generate_trial_balance(general_ledger)
    IN  IF tb_df # <<>>
        THEN IF OverTolerance(Abs(tb_df[Len(tb_df)].Debit - tb_df[Len(tb_df)].Credit))
             THEN Shown("trial_balance", "error", "Debits and Credits do NOT balance!")
             ELSE Shown("trial_balance", "success", "Debits and Credits balance!")
        ELSE Shown("trial_balance", "info", "No data to generate Trial Balance.")

income_statement_button ==
    IF generate_income_statement(general_ledger) # <<>>
    THEN Shown("income_statement", "shown", "")
    ELSE Shown("income_statement", "info", "No data to generate Income Statement.")

balance_sheet_button ==
    LET bs_df == generate_balance_sheet(general_ledger)
    IN  IF bs_df # <<>>
        THEN LET total_assets == category_amount(bs_df, "Total Assets")
                 total_liabilities_equity ==
                     category_amount(bs_df, "Total Liabilities & Equity")
             IN  IF OverTolerance(Abs(total_assets - total_liabilities_equity))
                 THEN Shown("balance_sheet", "error",
                            "Assets do NOT equal Liabilities + Equity!")
                 ELSE Shown("balance_sheet", "success", "Assets = Liabilities + Equity!")
        ELSE Shown("balance_sheet", "info", "No data to generate Balance Sheet.")

cash_flow_button ==
    IF generate_cash_flow_statement(general_ledger) # <<>>
    THEN Shown("cash_flow", "shown", "")
    ELSE Shown("cash_flow", "info", "No data to generate Cash Flow Statement.")

equity_button ==
    IF generate_statement_of_change_in_equity(general_ledger) # <<>>
    THEN Shown("equity", "shown", "")
    ELSE Shown("equity", "info", "No data to generate Statement of Change in Equity.")

----------------------------------------------------------------------------
(* Analytics page: ratios of the uploaded statements *)

\* a session variable holds None or a DataFrame: here <<>> or <<rows>>
None == <<>>

\* the income statements and balance sheets offered to the uploaders: rows of
\* Item and Amount, amounts in whole currency units
IncomeStatements ==
    { << [Item |-> "Sales Revenue", Amount |-> revenue],
         [Item |-> "Cost of Goods Sold", Amount |-> cogs],
         [Item |-> "Operating Expenses", Amount |-> 1] >> :
      revenue \in {0, 4}, cogs \in {1, 4} }

BalanceSheets ==
    { << [Item |-> "Cash", Amount |-> liquid[1]],
         [Item |-> "Accounts Receivable", Amount |-> liquid[2]],
         [Item |-> "Inventory", Amount |-> liquid[3]],
         [Item |-> "Fixed Assets (Net)", Amount |-> 0],
         [Item |-> "Accounts Payable", Amount |-> funding[1]],
         [Item |-> "Owner's Equity (Simplified)", Amount |-> funding[2]] >>
      \o debt :
      liquid \in {0, 2} \X {0, 1} \X {0, 1},
      funding \in {0, 2} \X {0, 3},
      debt \in {<<>>, <<[Item |-> "Long-term Debt", Amount |-> 1]>>} }

\* a CSV file: whether its header has the columns Item and Amount, and its rows
Files(statements) ==
    {[columns |-> TRUE, rows |-> rows] : rows \in statements}
      \cup {[columns |-> FALSE, rows |-> <<>>]}

\* df[df['Item'] == item]['Amount'].sum(), over the first n rows
RECURSIVE item_sum_to(_, _, _)
item_sum_to(df, item, n) ==
    IF n = 0 THEN 0
    ELSE (IF df[n].Item = item THEN df[n].Amount ELSE 0) + item_sum_to(df, item, n - 1)

item_sum(df, item) == item_sum_to(df, item, Len(df))

\* item in df['Item'].values
has_item(df, item) == \E i \in 1..Len(df) : df[i].Item = item

\* a float as the fraction num/den: float('inf') is 1/0, and 0/0 stands for
\* the ZeroDivisionError of a division by zero
Number(x) == [num |-> x, den |-> 1]

Zero == Number(0)

Inf == [num |-> 1, den |-> 0]

ZeroDivision == [num |-> 0, den |-> 0]

\* a / b
Quotient(a, b) ==
    IF a = ZeroDivision \/ b = ZeroDivision \/ b.num = 0 THEN ZeroDivision
    ELSE [num |-> a.num * b.den, den |-> a.den * b.num]

\* mutant: every number passes the test
Truthy_always(x) == TRUE

\* the truth value of a number in "a / b if b else fallback"
Truthy(x) == x # 0

RatioNames ==
    {"Gross Profit Margin", "Net Profit Margin", "Current Ratio", "Quick Ratio",
     "Debt-to-Equity Ratio", "Accounts Receivable Turnover (Days)",
     "Return on Assets (ROA)", "Return on Equity (ROE)"}

\* the dictionary returned by the except branch
NoRatios == [name \in {} |-> Zero]

calculate_ratios(is_df, bs_df) ==
    LET revenue == item_sum(is_df, "Sales Revenue")
        cogs == item_sum(is_df, "Cost of Goods Sold")
        gross_profit == revenue - cogs
        operating_expenses == item_sum(is_df, "Operating Expenses")
        interest_expense == item_sum(is_df, "Interest Expense")
        taxes == item_sum(is_df, "Taxes")
        net_income == revenue - cogs - operating_expenses - interest_expense - taxes
        cash == item_sum(bs_df, "Cash")
        accounts_receivable == item_sum(bs_df, "Accounts Receivable")
        inventory_amount == item_sum(bs_df, "Inventory")
        current_assets == cash + accounts_receivable + inventory_amount
        fixed_assets_net == item_sum(bs_df, "Fixed Assets (Net)")
        total_assets == current_assets + fixed_assets_net
        accounts_payable == item_sum(bs_df, "Accounts Payable")
        current_liabilities == accounts_payable
        long_term_debt == IF has_item(bs_df, "Long-term Debt")
                          THEN item_sum(bs_df, "Long-term Debt") ELSE 0
        total_liabilities == current_liabilities + long_term_debt
        owner_equity == item_sum(bs_df, "Owner's Equity (Simplified)")
        ratios ==
            [name \in RatioNames |->
               CASE name = "Gross Profit Margin" ->
                      IF Truthy(revenue)
                      THEN Quotient(Number(gross_profit), Number(revenue)) ELSE Zero
                 [] name = "Net Profit Margin" ->
                      IF Truthy(revenue)
                      THEN Quotient(Number(net_income), Number(revenue)) ELSE Zero
                 [] name = "Current Ratio" ->
                      IF Truthy(current_liabilities)
                      THEN Quotient(Number(current_assets), Number(current_liabilities))
                      ELSE Inf
                 [] name = "Quick Ratio" ->
                      IF Truthy(current_liabilities)
                      THEN Quotient(Number(current_assets - inventory_amount),
                                    Number(current_liabilities))
                      ELSE Inf
                 [] name = "Debt-to-Equity Ratio" ->
                      IF Truthy(owner_equity)
                      THEN Quotient(Number(total_liabilities), Number(owner_equity))
                      ELSE Inf
                 [] name = "Accounts Receivable Turnover (Days)" ->
                      IF Truthy(accounts_receivable) /\ Truthy(revenue)
                      THEN Quotient(Number(365),
                                    Quotient(Number(revenue), Number(accounts_receivable)))
                      ELSE Zero
                 [] name = "Return on Assets (ROA)" ->
                      IF Truthy(total_assets)
                      THEN Quotient(Number(net_income), Number(total_assets)) ELSE Zero
                 [] name = "Return on Equity (ROE)" ->
                      IF Truthy(owner_equity)
                      THEN Quotient(Number(net_income), Number(owner_equity)) ELSE Zero]
    IN  IF \E name \in RatioNames : ratios[name] = ZeroDivision
        THEN NoRatios
        ELSE ratios

AnalyticsShown(op, status, message) ==
    /\ result' = Outcome(op, status, message, 0)
    /\ UNCHANGED <<stores, general_ledger, now, ops, depreciation_runs>>

is_uploader ==
    \E uploaded_is_file \in Files(IncomeStatements) :
        IF uploaded_is_file.columns
        THEN /\ uploaded_is' = <<uploaded_is_file.rows>>
             /\ UNCHANGED uploaded_bs
             /\ AnalyticsShown("is_uploader", "success",
                               "Income Statement uploaded successfully!")
        ELSE /\ uploaded_is' = None
             /\ UNCHANGED uploaded_bs
             /\ AnalyticsShown("is_uploader", "error",
                    "Error: Income Statement CSV must contain 'Item' and 'Amount' columns.")

bs_uploader ==
    \E uploaded_bs_file \in Files(BalanceSheets) :
        IF uploaded_bs_file.columns
        THEN /\ uploaded_bs' = <<uploaded_bs_file.rows>>
             /\ UNCHANGED uploaded_is
             /\ AnalyticsShown("bs_uploader", "success",
                               "Balance Sheet uploaded successfully!")
        ELSE /\ uploaded_bs' = None
             /\ UNCHANGED uploaded_is
             /\ AnalyticsShown("bs_uploader", "error",
                    "Error: Balance Sheet CSV must contain 'Item' and 'Amount' columns.")

\* the button exists only when both statements are uploaded
ratios_button ==
    /\ uploaded_is # None
    /\ uploaded_bs # None
    /\ LET ratios == calculate_ratios(uploaded_is[1], uploaded_bs[1])
       IN  IF ratios # NoRatios
           THEN AnalyticsShown("ratios", "shown", "")
           ELSE AnalyticsShown("ratios", "warning", "Could not calculate ratios.")
    /\ UNCHANGED uploads

----------------------------------------------------------------------------
(* Analytics page: forecast of the uploaded statements *)
(* Floats are exact fractions [num, den], as in the ratios above. *)

RECURSIVE GCD(_, _)
GCD(a, b) == IF b = 0 THEN a ELSE GCD(b, a % b)

\* a fraction in lowest terms with a positive denominator
Reduced(x) ==
    IF x.den = 0 THEN x
    ELSE LET g == GCD(Abs(x.num), Abs(x.den))
             sign == IF x.den < 0 THEN -1 ELSE 1
         IN  [num |-> sign * (x.num \div g), den |-> sign * (x.den \div g)]

\* a + b, a - b, a * b and a / b on floats
Plus(a, b) ==
    LET l == (a.den \div GCD(a.den, b.den)) * b.den
    IN  Reduced([num |-> a.num * (l \div a.den) + b.num * (l \div b.den), den |-> l])

Minus(a, b) == Plus(a, [num |-> -b.num, den |-> b.den])

Times(a, b) == Reduced([num |-> a.num * b.num, den |-> a.den * b.den])

Over(a, b) == Reduced(Quotient(a, b))

\* the sliders: st.slider(..., 1, 10, 3) and st.slider(..., 0, 30, 5)
ForecastYears == {1, 3}

GrowthRates == {0, 5}

\* the assumptions the page derives from the uploaded income statement
cogs_pct_revenue(is_df) ==
    LET current_revenue == item_sum(is_df, "Sales Revenue")
        current_cogs == item_sum(is_df, "Cost of Goods Sold")
    IN  IF Truthy(current_revenue)
        THEN Times(Over(Number(current_cogs), Number(current_revenue)), Number(100))
        ELSE Number(40)

op_exp_pct_revenue(is_df) ==
    LET current_revenue == item_sum(is_df, "Sales Revenue")
        current_op_exp == item_sum(is_df, "Operating Expenses")
    IN  IF Truthy(current_revenue)
        THEN Times(Over(Number(current_op_exp), Number(current_revenue)), Number(100))
        ELSE Number(30)

\* mutant: the change in payables left out of the cash plug
proj_cash_no_payables(prev, proj_net_income, proj_ar, proj_inv, proj_ap) ==
    Minus(Minus(Plus(prev.Cash, proj_net_income),
                Minus(proj_ar, prev.Accounts_Receivable)),
          Minus(proj_inv, prev.Inventory))

proj_cash(prev, proj_net_income, proj_ar, proj_inv, proj_ap) ==
    Plus(Minus(Minus(Plus(prev.Cash, proj_net_income),
                     Minus(proj_ar, prev.Accounts_Receivable)),
               Minus(proj_inv, prev.Inventory)),
         Minus(proj_ap, prev.Accounts_Payable))

\* one pass of the loop: the projection of year i from the previous values
projection(prev, i, revenue_growth, cogs_pct, op_exp_pct) ==
    LET proj_revenue == Times(prev.Sales_Revenue,
                              Plus(Number(1), Over(Number(revenue_growth), Number(100))))
        proj_cogs == Times(proj_revenue, Over(cogs_pct, Number(100)))
        proj_gross_profit == Minus(proj_revenue, proj_cogs)
        proj_op_exp == Times(proj_revenue, Over(op_exp_pct, Number(100)))
        proj_net_income == Minus(proj_gross_profit, proj_op_exp)
        proj_ar == Times(proj_revenue, Over(Number(1), Number(10)))
        proj_inv == Times(proj_cogs, Over(Number(5), Number(100)))
        proj_ap == Times(proj_cogs, Over(Number(5), Number(100)))
        cash == proj_cash(prev, proj_net_income, proj_ar, proj_inv, proj_ap)
        proj_current_assets == Plus(Plus(cash, proj_ar), proj_inv)
        proj_fixed_assets_net == prev.Fixed_Assets_Net
        proj_total_assets == Plus(proj_current_assets, proj_fixed_assets_net)
        proj_current_liabilities == proj_ap
        proj_lt_debt == prev.Long_term_Debt
        proj_total_liabilities == Plus(proj_current_liabilities, proj_lt_debt)
        proj_owner_equity == Plus(prev.Owners_Equity, proj_net_income)
        proj_total_liabilities_equity == Plus(proj_total_liabilities, proj_owner_equity)
    IN  [Year |-> now + i,
         Sales_Revenue |-> proj_revenue, Cost_of_Goods_Sold |-> proj_cogs,
         Gross_Profit |-> proj_gross_profit, Operating_Expenses |-> proj_op_exp,
         Net_Income |-> proj_net_income,
         Cash |-> cash, Accounts_Receivable |-> proj_ar, Inventory |-> proj_inv,
         Current_Assets |-> proj_current_assets,
         Fixed_Assets_Net |-> proj_fixed_assets_net,
         Total_Assets |-> proj_total_assets,
         Accounts_Payable |-> proj_ap, Long_term_Debt |-> proj_lt_debt,
         Total_Liabilities |-> proj_total_liabilities,
         Owners_Equity |-> proj_owner_equity,
         Total_Liabilities_Equity |-> proj_total_liabilities_equity]

\* the loop "for i in range(1, years + 1)" from year i on
RECURSIVE projections(_, _, _, _, _, _)
projections(prev, i, years, revenue_growth, cogs_pct, op_exp_pct) ==
    IF i > years THEN <<>>
    ELSE LET proj == projection(prev, i, revenue_growth, cogs_pct, op_exp_pct)
         IN  <<proj>> \o projections(proj, i + 1, years, revenue_growth,
                                     cogs_pct, op_exp_pct)

\* the two frames the loop fills, one row per projected year
forecast_is(rows) ==
    [i \in 1..Len(rows) |->
       [Year |-> rows[i].Year, Sales_Revenue |-> rows[i].Sales_Revenue,
        Cost_of_Goods_Sold |-> rows[i].Cost_of_Goods_Sold,
        Gross_Profit |-> rows[i].Gross_Profit,
        Operating_Expenses |-> rows[i].Operating_Expenses,
        Net_Income |-> rows[i].Net_Income]]

forecast_bs(rows) ==
    [i \in 1..Len(rows) |->
       [Year |-> rows[i].Year, Cash |-> rows[i].Cash,
        Accounts_Receivable |-> rows[i].Accounts_Receivable,
        Inventory |-> rows[i].Inventory,
        Current_Assets |-> rows[i].Current_Assets,
        Fixed_Assets_Net |-> rows[i].Fixed_Assets_Net,
        Total_Assets |-> rows[i].Total_Assets,
        Accounts_Payable |-> rows[i].Accounts_Payable,
        Long_term_Debt |-> rows[i].Long_term_Debt,
        Total_Liabilities |-> rows[i].Total_Liabilities,
        Owners_Equity |-> rows[i].Owners_Equity,
        Total_Liabilities_Equity |-> rows[i].Total_Liabilities_Equity]]

\* returns <<forecast_is, forecast_bs>>
forecast_financials(is_df, bs_df, years, revenue_growth, cogs_pct, op_exp_pct) ==
    IF is_df = <<>> \/ bs_df = <<>> THEN <<None, None>>
    ELSE LET current ==
               [Sales_Revenue |-> Number(item_sum(is_df, "Sales Revenue")),
                Cash |-> Number(item_sum(bs_df, "Cash")),
                Accounts_Receivable |-> Number(item_sum(bs_df, "Accounts Receivable")),
                Inventory |-> Number(item_sum(bs_df, "Inventory")),
                Fixed_Assets_Net |-> Number(item_sum(bs_df, "Fixed Assets (Net)")),
                Accounts_Payable |-> Number(item_sum(bs_df, "Accounts Payable")),
                Long_term_Debt |->
                    Number(IF has_item(bs_df, "Long-term Debt")
                           THEN item_sum(bs_df, "Long-term Debt") ELSE 0),
                Owners_Equity |-> Number(item_sum(bs_df, "Owner's Equity (Simplified)"))]
             rows == projections(current, 1, years, revenue_growth, cogs_pct, op_exp_pct)
         IN  <<forecast_is(rows), forecast_bs(rows)>>

\* the button exists only when both statements are uploaded; the outcome
\* records the number of years forecast
forecast_button ==
    /\ uploaded_is # None
    /\ uploaded_bs # None
    /\ \E forecast_years \in ForecastYears, revenue_growth_rate \in GrowthRates :
          LET is_df == uploaded_is[1]
              bs_df == uploaded_bs[1]
              forecasted == forecast_financials(is_df, bs_df, forecast_years,
                                revenue_growth_rate, cogs_pct_revenue(is_df),
                                op_exp_pct_revenue(is_df))
          IN  IF forecasted[1] # None
              THEN result' = Outcome("forecast", "shown", "", forecast_years)
              ELSE result' = Outcome("forecast", "warning",
                                     "Could not generate forecast.", forecast_years)
    /\ UNCHANGED <<uploads, stores, general_ledger, now, ops, depreciation_runs>>

----------------------------------------------------------------------------

Init ==
    /\ receivables = <<>>
    /\ payables = <<>>
    /\ inventory = <<>>
    /\ fixed_assets = <<>>
    /\ general_ledger = <<>>
    /\ uploaded_is = None
    /\ uploaded_bs = None
    /\ now = 0
    /\ result = Outcome("none", "none", "", 0)
    /\ ops = 0
    /\ depreciation_runs = {}

Next ==
    \/ receivable_form
    \/ payable_form
    \/ inventory_form
    \/ pos_form
    \/ fixed_asset_form
    \/ depreciation_button
    \/ trial_balance_button
    \/ income_statement_button
    \/ balance_sheet_button
    \/ cash_flow_button
    \/ equity_button

Spec == Init /\ [][Next]_vars

\* the Analytics page, which reads the uploaded statements only
NextAnalytics ==
    \/ is_uploader
    \/ bs_uploader
    \/ ratios_button
    \/ forecast_button

SpecAnalytics == Init /\ [][NextAnalytics]_vars

----------------------------------------------------------------------------
(* Properties *)

StatementOps ==
    {"trial_balance", "income_statement", "balance_sheet", "cash_flow", "equity"}

Unchanged == stores' = stores /\ general_ledger' = general_ledger

\* C1: in every reachable state the debits of the whole ledger sum to the
\* same amount as its credits.
C1_BalanceInvariant ==
    TotalDebit(general_ledger) = TotalCredit(general_ledger)

\* a ledger holding a POS sale and an expense payment
C1_Witness ==
    /\ HasAccount(general_ledger, "Inventory")
    /\ HasAccount(general_ledger, "Expenses")
    /\ TotalDebit(general_ledger) > 0

\* C2: whenever the ledger is non-empty the Balance Sheet's Total Assets equal
\* its Total Liabilities & Equity, and the Balance Sheet button never shows
\* the "Assets do NOT equal Liabilities + Equity" error.
C2_AccountingIdentity ==
    /\ general_ledger # <<>> =>
         LET bs_df == generate_balance_sheet(general_ledger)
         IN  category_amount(bs_df, "Total Assets")
               = category_amount(bs_df, "Total Liabilities & Equity")
    /\ ~(result.op = "balance_sheet" /\ result.status = "error")

\* the balance sheet was generated from a ledger with an acquisition and a
\* depreciation run
C2_Witness ==
    /\ result.op = "balance_sheet"
    /\ result.status = "success"
    /\ HasAccount(general_ledger, "Accumulated Depreciation")
    /\ category_amount(generate_balance_sheet(general_ledger), "Total Assets") # 0

\* C3: a POS sale of a stocked item for more than its stock returns an error
\* whose message carries the quantity in stock, and changes neither the
\* inventory nor the ledger.
C3_OversellRejected ==
    [][\A d \in DateInputs, item \in Items, q \in SaleQuantities,
          c \in SaleCustomers, t \in RecordTypes :
          ( /\ HasItem(inventory, item)
            /\ q > inventory[ItemIndex(inventory, item)].Quantity
            /\ add_sale_record(d, item, q, c, t) )
          => /\ result'.status = "error"
             /\ result'.message = "Not enough stock. Only {} units available."
             /\ result'.detail = inventory[ItemIndex(inventory, item)].Quantity
             /\ inventory' = inventory
             /\ general_ledger' = general_ledger]_vars

\* an oversell was rejected after an earlier sale had reduced the stock
C3_Witness ==
    /\ result.op = "sale"
    /\ result.status = "error"
    /\ result.message = "Not enough stock. Only {} units available."
    /\ HasAccount(general_ledger, "Inventory")
    /\ \E i \in 1..Len(inventory) : inventory[i].Quantity = result.detail

\* C4: every inventory quantity is an integer >= 0 in every reachable state.
C4_QuantityNonNegative ==
    \A i \in 1..Len(inventory) : inventory[i].Quantity \in Nat

\* a sale has taken the whole stock of an item
C4_Witness ==
    /\ result.op = "sale"
    /\ result.status = "success"
    /\ \E i \in 1..Len(inventory) : inventory[i].Quantity = 0

\* the call is a later call of its calendar year
LaterCallOf(today) == today = now /\ depreciation_runs # {}

NoDepreciationPosted ==
    /\ result'.status = "warning"
    /\ general_ledger' = general_ledger
    /\ fixed_assets' = fixed_assets

\* C5 as stated: of two calls of the depreciation routine in one calendar
\* year, the second returns a warning, appends nothing to the ledger and
\* leaves every accumulated depreciation as it was.
C5_SecondCallWarns ==
    [][\A today \in Years :
          (LaterCallOf(today) /\ calculate_and_post_depreciation(today))
          => NoDepreciationPosted]_vars

\* C5 amended: a call of the depreciation routine in a calendar year in which
\* an earlier call returned success returns a warning, appends nothing to the
\* ledger and leaves every accumulated depreciation as it was.
C5_CallAfterSuccessWarns ==
    [][\A today \in Years :
          ( /\ LaterCallOf(today)
            /\ "success" \in depreciation_runs
            /\ calculate_and_post_depreciation(today) )
          => NoDepreciationPosted]_vars

\* a call was refused because the year's depreciation had been posted, with
\* an asset acquired after that posting
C5_Witness ==
    /\ result.op = "depreciation"
    /\ result.status = "warning"
    /\ result.message = "Depreciation for {} has already been posted."
    /\ "success" \in depreciation_runs
    /\ Len(fixed_assets) = 2
    /\ fixed_assets[1].Accumulated_Depreciation # 0
    /\ fixed_assets[2].Accumulated_Depreciation = 0

NoDuplicateItems ==
    \A i, j \in 1..Len(inventory) :
        inventory[i].Item = inventory[j].Item => i = j

\* C6: submitting an item name that is already stocked overwrites that row's
\* quantity, unit cost and selling price with the submitted values, adds no
\* row and leaves the other rows alone; no two rows ever share an item name.
C6_Upsert ==
    /\ []NoDuplicateItems
    /\ [][\A item \in Items, q \in Quantities, price \in PriceList :
             (HasItem(inventory, item) /\ inventory_submit(item, q, price[1], price[2]))
             => LET k == ItemIndex(inventory, item)
                IN  /\ Len(inventory') = Len(inventory)
                    /\ inventory'[k].Item = item
                    /\ inventory'[k].Quantity = q
                    /\ inventory'[k].Unit_Cost = price[1]
                    /\ inventory'[k].Selling_Price = price[2]
                    /\ \A j \in 1..Len(inventory) :
                          j # k => inventory'[j] = inventory[j]]_vars

\* an item was updated while another item was in stock
C6_Witness ==
    /\ result.op = "inventory"
    /\ result.message = "Inventory for '{}' updated."
    /\ Len(inventory) = 2

\* C7: an operation that ends in an error or a warning changes no store and
\* not the ledger; a sale of an unknown item, a depreciation run on an empty
\* register and a receivable, payable or asset submission without a name or
\* with a non-positive amount all end that way.
C7_RejectionChangesNothing ==
    [][/\ result'.status \in {"error", "warning"} => Unchanged
       /\ \A d \in DateInputs, c \in Customers, t \in RecordTypes,
             a \in Amounts, n \in Notes :
             ((c = "" \/ a <= 0) /\ receivable_submit(d, c, t, a, n))
             => (result'.status = "error" /\ Unchanged)
       /\ \A d \in DateInputs, v \in Vendors, a \in Amounts, n \in Notes :
             ((v = "" \/ a <= 0) /\ payable_submit(d, v, a, n))
             => (result'.status = "error" /\ Unchanged)
       /\ \A an \in AssetNames, cat \in Categories, loc \in Locations,
             d \in DateInputs, k \in Amounts, sv \in Salvages, ul \in Lives :
             ((an = "" \/ k <= 0) /\ fixed_asset_submit(an, cat, loc, d, k, sv, ul))
             => (result'.status = "error" /\ Unchanged)
       /\ \A d \in DateInputs, item \in Items, q \in SaleQuantities,
             c \in SaleCustomers, t \in RecordTypes :
             (~HasItem(inventory, item) /\ add_sale_record(d, item, q, c, t))
             => /\ result'.status = "error"
                /\ result'.message = "Item not found in inventory."
                /\ Unchanged
       /\ \A today \in Years :
             (fixed_assets = <<>> /\ calculate_and_post_depreciation(today))
             => (result'.status = "warning" /\ Unchanged)]_vars

\* a sale of an item that is not stocked was refused, with stock and ledger
\* entries present
C7_Witness ==
    /\ result.op = "sale"
    /\ result.message = "Item not found in inventory."
    /\ inventory # <<>>
    /\ general_ledger # <<>>

\* C8: every step leaves the old ledger as a prefix of the new one, and
\* generating a statement leaves the ledger as it is.
C8_AppendOnly ==
    [][/\ IsPrefix(general_ledger, general_ledger')
       /\ result'.op \in StatementOps => general_ledger' = general_ledger]_vars

\* a statement was generated from a ledger that three operations had extended
C8_Witness ==
    /\ result.op \in StatementOps
    /\ ops = MaxOps
    /\ Len(general_ledger) >= 6

\* the step appends exactly the entries <<account1 debit a, account2 credit a>>
TwoEntries(account1, account2, a) ==
    LET n == Len(general_ledger)
    IN  /\ Len(general_ledger') = n + 2
        /\ IsPrefix(general_ledger, general_ledger')
        /\ general_ledger'[n + 1].Account = account1
        /\ general_ledger'[n + 1].Debit = a
        /\ general_ledger'[n + 1].Credit = 0
        /\ general_ledger'[n + 2].Account = account2
        /\ general_ledger'[n + 2].Debit = 0
        /\ general_ledger'[n + 2].Credit = a

\* the step appends exactly one row to the store
OneRow(store, store2) == Len(store2) = Len(store) + 1 /\ IsPrefix(store, store2)

\* C9: an accepted receivable, payable or fixed-asset submission appends one
\* record to its own store, changes no other store, and appends two ledger
\* entries: Cash (cash sale) or Accounts Receivable (credit sale) debit A then
\* Sales Revenue credit A; Expenses debit A then Cash credit A; Fixed Assets
\* debit K then Cash credit K, the new asset starting with accumulated
\* depreciation 0.
C9_TwoEntryPostings ==
    [][/\ \A d \in DateInputs, c \in Customers, t \in RecordTypes,
             a \in Amounts, n \in Notes :
             (c # "" /\ a > 0 /\ receivable_submit(d, c, t, a, n))
             => /\ OneRow(receivables, receivables')
                /\ receivables'[Len(receivables')].Amount = a
                /\ TwoEntries(IF t = "Cash" THEN "Cash" ELSE "Accounts Receivable",
                              "Sales Revenue", a)
                /\ UNCHANGED <<payables, inventory, fixed_assets>>
       /\ \A d \in DateInputs, v \in Vendors, a \in Amounts, n \in Notes :
             (v # "" /\ a > 0 /\ payable_submit(d, v, a, n))
             => /\ OneRow(payables, payables')
                /\ payables'[Len(payables')].Amount = a
                /\ TwoEntries("Expenses", "Cash", a)
                /\ UNCHANGED <<receivables, inventory, fixed_assets>>
       /\ \A an \in AssetNames, cat \in Categories, loc \in Locations,
             d \in DateInputs, k \in Amounts, sv \in Salvages, ul \in Lives :
             (an # "" /\ k > 0 /\ fixed_asset_submit(an, cat, loc, d, k, sv, ul))
             => /\ OneRow(fixed_assets, fixed_assets')
                /\ fixed_assets'[Len(fixed_assets')].Cost = k
                /\ fixed_assets'[Len(fixed_assets')].Accumulated_Depreciation = 0
                /\ TwoEntries("Fixed Assets", "Cash", k)
                /\ UNCHANGED <<receivables, payables, inventory>>]_vars

\* a credit sale, an expense and an acquisition have been posted
C9_Witness ==
    /\ HasAccount(general_ledger, "Accounts Receivable")
    /\ payables # <<>>
    /\ fixed_assets # <<>>
    /\ receivables # <<>>

\* C10: a POS sale of Q <= stock units succeeds, takes exactly Q from the
\* item's quantity, leaves the other rows alone and appends four entries
\* from the row's price P and cost C: Cash or Accounts Receivable debit Q*P,
\* Sales Revenue credit Q*P, Cost of Goods Sold debit Q*C, Inventory credit Q*C.
C10_SalePosting ==
    [][\A d \in DateInputs, item \in Items, q \in SaleQuantities,
          c \in SaleCustomers, t \in RecordTypes :
          ( /\ HasItem(inventory, item)
            /\ q <= inventory[ItemIndex(inventory, item)].Quantity
            /\ add_sale_record(d, item, q, c, t) )
          => LET k == ItemIndex(inventory, item)
                 P == inventory[k].Selling_Price
                 C == inventory[k].Unit_Cost
                 n == Len(general_ledger)
                 e == [i \in 1..4 |-> general_ledger'[n + i]]
             IN  /\ result'.status = "success"
                 /\ Len(inventory') = Len(inventory)
                 /\ inventory'[k].Quantity = inventory[k].Quantity - q
                 /\ \A j \in 1..Len(inventory) : j # k => inventory'[j] = inventory[j]
                 /\ Len(general_ledger') = n + 4
                 /\ IsPrefix(general_ledger, general_ledger')
                 /\ e[1].Account = (IF t = "Cash" THEN "Cash" ELSE "Accounts Receivable")
                 /\ e[1].Debit = q * P /\ e[1].Credit = 0
                 /\ e[2].Account = "Sales Revenue"
                 /\ e[2].Debit = 0 /\ e[2].Credit = q * P
                 /\ e[3].Account = "Cost of Goods Sold"
                 /\ e[3].Debit = q * C /\ e[3].Credit = 0
                 /\ e[4].Account = "Inventory"
                 /\ e[4].Debit = 0 /\ e[4].Credit = q * C]_vars

\* a credit sale took the whole stock of one of two items
C10_Witness ==
    /\ result.op = "sale"
    /\ result.status = "success"
    /\ Len(inventory) = 2
    /\ \E i \in 1..Len(inventory) : inventory[i].Quantity = 0
    /\ \E i \in 1..Len(general_ledger) :
          /\ general_ledger[i].Account = "Accounts Receivable"
          /\ general_ledger[i].Debit > 0

\* the assets a depreciation run depreciates, and the place of asset k among them
Depreciable(fa) == {k \in 1..Len(fa) : fa[k].Useful_Life > 0}

RankIn(fa, k) == Cardinality({i \in Depreciable(fa) : i <= k})

\* C11: a depreciation run that succeeds appends, in register order, one pair
\* of entries per asset with useful life > 0 (Depreciation Expense debit d,
\* Accumulated Depreciation credit d, with d * useful life = cost - salvage
\* value) and nothing else, adds d to that asset's accumulated depreciation
\* and leaves every other field and every other asset as it was.
C11_DepreciationPairs ==
    [][\A today \in Years :
          (calculate_and_post_depreciation(today) /\ result'.status = "success")
          => LET n == Len(general_ledger)
             IN  /\ Len(general_ledger')
                      = n + 2 * Cardinality(Depreciable(fixed_assets))
                 /\ IsPrefix(general_ledger, general_ledger')
                 /\ Len(fixed_assets') = Len(fixed_assets)
                 /\ \A k \in 1..Len(fixed_assets) :
                       LET row == fixed_assets[k]
                           j == n + 2 * RankIn(fixed_assets, k) - 1
                       IN  IF k \in Depreciable(fixed_assets)
                           THEN LET expense == general_ledger'[j]
                                    accumulated == general_ledger'[j + 1]
                                    d == expense.Debit
                                IN  /\ d * row.Useful_Life = row.Cost - row.Salvage_Value
                                    /\ expense.Account = "Depreciation Expense"
                                    /\ expense.Credit = 0
                                    /\ expense.Date = today
                                    /\ accumulated.Account = "Accumulated Depreciation"
                                    /\ accumulated.Debit = 0
                                    /\ accumulated.Credit = d
                                    /\ accumulated.Date = today
                                    /\ fixed_assets'[k] =
                                         [row EXCEPT !.Accumulated_Depreciation = @ + d]
                           ELSE fixed_assets'[k] = row]_vars

\* a run has depreciated two assets of different useful lives
C11_Witness ==
    /\ result.op = "depreciation"
    /\ result.status = "success"
    /\ Len(fixed_assets) = 2
    /\ fixed_assets[1].Useful_Life # fixed_assets[2].Useful_Life
    /\ fixed_assets[1].Accumulated_Depreciation # 0
    /\ fixed_assets[2].Accumulated_Depreciation # 0
    /\ Len(general_ledger) = 8

RECURSIVE SumSeq(_)
SumSeq(s) == IF s = <<>> THEN 0 ELSE Head(s) + SumSeq(Tail(s))

\* the entries of the ledger posted to an account
EntriesOf(account) == SelectSeq(general_ledger, LAMBDA e : e.Account = account)

DebitsTo(account) ==
    LET es == EntriesOf(account) IN SumSeq([i \in 1..Len(es) |-> es[i].Debit])

CreditsTo(account) ==
    LET es == EntriesOf(account) IN SumSeq([i \in 1..Len(es) |-> es[i].Credit])

\* the amount on the line of a statement labelled item
ItemAmount(statement, item) ==
    statement[CHOOSE i \in 1..Len(statement) : statement[i].Item = item].Amount

\* C12: for a non-empty ledger the Income Statement shows Revenue = credits to
\* Sales Revenue, COGS (as a deduction) = debits to Cost of Goods Sold, Gross
\* Profit = Revenue - COGS and Net Income = Gross Profit - debits to Expenses
\* - debits to Depreciation Expense; the Balance Sheet's Owner's Equity and
\* the ending equity of the Statement of Changes in Equity equal Net Income.
C12_IncomeStatement ==
    general_ledger # <<>> =>
      LET is_df == generate_income_statement(general_ledger)
          bs_df == generate_balance_sheet(general_ledger)
          eq_df == generate_statement_of_change_in_equity(general_ledger)
          Revenue == CreditsTo("Sales Revenue")
          COGS == DebitsTo("Cost of Goods Sold")
          NetIncome == (Revenue - COGS) - DebitsTo("Expenses")
                         - DebitsTo("Depreciation Expense")
      IN  /\ ItemAmount(is_df, "Sales Revenue") = Revenue
          /\ ItemAmount(is_df, "Less: Cost of Goods Sold") = -COGS
          /\ ItemAmount(is_df, "Gross Profit") = Revenue - COGS
          /\ ItemAmount(is_df, "Net Income (Loss)") = NetIncome
          /\ category_amount(bs_df, "Equity") = NetIncome
          /\ ItemAmount(eq_df, "Ending Equity Balance") = NetIncome

\* the income statement was generated from a ledger with a POS sale and an
\* expense payment, at a profit different from the revenue
C12_Witness ==
    /\ result.op = "income_statement"
    /\ CreditsTo("Sales Revenue") > 0
    /\ DebitsTo("Cost of Goods Sold") > 0
    /\ DebitsTo("Expenses") > 0
    /\ ItemAmount(generate_income_statement(general_ledger), "Net Income (Loss)") # 0

\* C13: whenever the Trial Balance has rows, the debit and credit of its
\* Total row differ by at most 0.01, and the Trial Balance page never shows
\* the "Debits and Credits do NOT balance" error.
C13_TrialBalanceBalances ==
    /\ LET tb_df == generate_trial_balance(general_ledger)
       IN  tb_df # <<>> =>
             ~OverTolerance(Abs(tb_df[Len(tb_df)].Debit - tb_df[Len(tb_df)].Credit))
    /\ ~(result.op = "trial_balance" /\ result.status = "error")

\* the amount of an item of the uploaded balance sheet or income statement
Uploaded(df, item) == item_sum(df[1], item)

\* C14: for every uploaded pair of statements calculate_ratios returns all
\* eight ratios, none the result of a division by zero, with the fallbacks:
\* both margins 0 when revenue is 0; Current and Quick Ratio infinite when
\* Accounts Payable is 0; Debt-to-Equity infinite and ROE 0 when owner's
\* equity is 0; receivable days 0 when receivables or revenue are 0; ROA 0
\* when total assets are 0; without a Long-term Debt row the debt is 0.  The
\* page never reports that the ratios could not be calculated.
C14_RatioFallbacks ==
    /\ ~(result.op = "ratios" /\ result.status = "warning")
    /\ (uploaded_is # None /\ uploaded_bs # None) =>
         LET ratios == calculate_ratios(uploaded_is[1], uploaded_bs[1])
             revenue == Uploaded(uploaded_is, "Sales Revenue")
             payable == Uploaded(uploaded_bs, "Accounts Payable")
             equity == Uploaded(uploaded_bs, "Owner's Equity (Simplified)")
             receivable == Uploaded(uploaded_bs, "Accounts Receivable")
             assets == Uploaded(uploaded_bs, "Cash") + receivable
                         + Uploaded(uploaded_bs, "Inventory")
                         + Uploaded(uploaded_bs, "Fixed Assets (Net)")
         IN  /\ DOMAIN ratios = RatioNames
             /\ \A name \in RatioNames :
                   ratios[name] = Inf \/ ratios[name].den # 0
             /\ revenue = 0 => /\ ratios["Gross Profit Margin"] = Zero
                               /\ ratios["Net Profit Margin"] = Zero
             /\ payable = 0 => /\ ratios["Current Ratio"] = Inf
                               /\ ratios["Quick Ratio"] = Inf
             /\ equity = 0 => /\ ratios["Debt-to-Equity Ratio"] = Inf
                              /\ ratios["Return on Equity (ROE)"] = Zero
             /\ (receivable = 0 \/ revenue = 0) =>
                   ratios["Accounts Receivable Turnover (Days)"] = Zero
             /\ assets = 0 => ratios["Return on Assets (ROA)"] = Zero
             /\ (~has_item(uploaded_bs[1], "Long-term Debt") /\ equity # 0) =>
                   ratios["Debt-to-Equity Ratio"] = [num |-> payable, den |-> equity]

\* the ratios were calculated from statements with no revenue, no payables,
\* no equity, no assets and no Long-term Debt row
C14_Witness ==
    /\ result.op = "ratios"
    /\ result.status = "shown"
    /\ Uploaded(uploaded_is, "Sales Revenue") = 0
    /\ Uploaded(uploaded_bs, "Accounts Payable") = 0
    /\ Uploaded(uploaded_bs, "Owner's Equity (Simplified)") = 0
    /\ Uploaded(uploaded_bs, "Cash") = 0
    /\ Uploaded(uploaded_bs, "Accounts Receivable") = 0
    /\ Uploaded(uploaded_bs, "Inventory") = 0
    /\ ~has_item(uploaded_bs[1], "Long-term Debt")

\* C15: every entry of the ledger has debit >= 0 and credit >= 0.
C15_AmountsNonNegative ==
    \A i \in 1..Len(general_ledger) :
        general_ledger[i].Debit >= 0 /\ general_ledger[i].Credit >= 0

\* C16: every entry of the ledger has exactly one of debit and credit
\* different from zero.
C16_OneSideNonZero ==
    \A i \in 1..Len(general_ledger) :
        (general_ledger[i].Debit # 0) # (general_ledger[i].Credit # 0)

\* C17: a new asset starts with accumulated depreciation 0, accumulated
\* depreciation is never negative, and no step decreases it.
C17_AccumulatedMonotone ==
    /\ [](\A k \in 1..Len(fixed_assets) :
             fixed_assets[k].Accumulated_Depreciation >= 0)
    /\ [][/\ \A k \in 1..Len(fixed_assets) :
                /\ k <= Len(fixed_assets')
                /\ fixed_assets'[k].Accumulated_Depreciation
                     >= fixed_assets[k].Accumulated_Depreciation
          /\ \A k \in (Len(fixed_assets) + 1)..Len(fixed_assets') :
                fixed_assets'[k].Accumulated_Depreciation = 0]_vars

\* C18: no two rows of the fixed-asset register carry the same asset tag.
C18_TagsUnique ==
    \A i, j \in 1..Len(fixed_assets) :
        fixed_assets[i].Asset_Tag = fixed_assets[j].Asset_Tag => i = j

\* the amount of an activity on the Cash Flow Statement of a ledger (0 when
\* the statement is empty)
Activity(gl, activity) ==
    LET cf_df == generate_cash_flow_statement(gl)
    IN  IF cf_df = <<>> THEN 0
        ELSE cf_df[CHOOSE i \in 1..Len(cf_df) : cf_df[i].Activity = activity].Amount

\* C19: an accepted acquisition of an asset of cost K lowers the Cash Flow
\* Statement's Net Cash from Investing Activities by K and leaves its Net
\* Cash from Operating Activities as it was.
C19_AcquisitionIsInvesting ==
    [][\A an \in AssetNames, cat \in Categories, loc \in Locations,
          d \in DateInputs, k \in Amounts, sv \in Salvages, ul \in Lives :
          ( /\ fixed_asset_valid(an, cat, loc, k, ul)
            /\ WordsIn(an) = {}
            /\ fixed_asset_submit(an, cat, loc, d, k, sv, ul) )
          => /\ Activity(general_ledger', "Net Cash from Investing Activities")
                  = Activity(general_ledger, "Net Cash from Investing Activities") - k
             /\ Activity(general_ledger', "Net Cash from Operating Activities")
                  = Activity(general_ledger, "Net Cash from Operating Activities")]_vars

\* the place in the ledger of the acquisition of asset k: the k-th debit to
\* Fixed Assets
AcquisitionEntry(k) ==
    CHOOSE i \in 1..Len(general_ledger) :
        /\ general_ledger[i].Account = "Fixed Assets"
        /\ Cardinality({j \in 1..i : general_ledger[j].Account = "Fixed Assets"}) = k

\* the calendar years in which asset k has been depreciated
YearsDepreciated(k) ==
    {general_ledger[i].Date : i \in {j \in (AcquisitionEntry(k) + 1)..Len(general_ledger) :
                                       general_ledger[j].Account = "Depreciation Expense"}}

\* C20: accumulated depreciation is not capped.  A run in a calendar year with
\* no depreciation posted yet succeeds whatever the assets have accumulated,
\* and an asset of useful life n depreciated in r calendar years has
\* accumulated r * (cost - salvage value) / n, also when r > n.
C20_DepreciationUncapped ==
    /\ [](\A k \in 1..Len(fixed_assets) :
             fixed_assets[k].Accumulated_Depreciation * fixed_assets[k].Useful_Life
               = Cardinality(YearsDepreciated(k))
                   * (fixed_assets[k].Cost - fixed_assets[k].Salvage_Value))
    /\ [][\A today \in Years :
             ( /\ fixed_assets # <<>>
               /\ \A i \in 1..Len(general_ledger) :
                     ~(general_ledger[i].Account = "Depreciation Expense"
                         /\ general_ledger[i].Date = today)
               /\ calculate_and_post_depreciation(today) )
             => result'.status = "success"]_vars

\* an asset of useful life n = 1 and cost > salvage value depreciated in
\* n + 1 calendar years: it has accumulated twice its depreciable amount and
\* the Balance Sheet's net fixed assets are below its salvage value
C20_Witness ==
    /\ Len(fixed_assets) = 1
    /\ fixed_assets[1].Useful_Life = 1
    /\ fixed_assets[1].Cost > fixed_assets[1].Salvage_Value
    /\ Cardinality(YearsDepreciated(1)) = 2
    /\ fixed_assets[1].Accumulated_Depreciation
         = 2 * (fixed_assets[1].Cost - fixed_assets[1].Salvage_Value)
    /\ fixed_assets[1].Accumulated_Depreciation
         > fixed_assets[1].Cost - fixed_assets[1].Salvage_Value
    /\ category_amount(generate_balance_sheet(general_ledger), "Non-Current Assets")
         < fixed_assets[1].Salvage_Value

\* the amount of an account on the Balance Sheet of a ledger
SheetAmount(gl, account) ==
    LET bs_df == generate_balance_sheet(gl)
    IN  bs_df[CHOOSE i \in 1..Len(bs_df) : bs_df[i].Account = account].Amount

\* C21: whenever the ledger is not empty, the Ending Cash Balance of the Cash
\* Flow Statement equals the Cash amount of the Balance Sheet.
C21_CashReconciles ==
    general_ledger # <<>> =>
      Activity(general_ledger, "Ending Cash Balance") = SheetAmount(general_ledger, "Cash")

\* C22: an inventory submission changes no store but the inventory and
\* appends nothing to the ledger; no ledger entry debits the Inventory
\* account; and for a non-empty ledger the Balance Sheet's Inventory amount
\* is <= 0 and equals minus the debits to Cost of Goods Sold.
C22_InventoryOnlyCredited ==
    /\ [](\A i \in 1..Len(general_ledger) :
             general_ledger[i].Account = "Inventory" => general_ledger[i].Debit = 0)
    /\ [](general_ledger # <<>> =>
             /\ SheetAmount(general_ledger, "Inventory") <= 0
             /\ SheetAmount(general_ledger, "Inventory")
                  = -DebitsTo("Cost of Goods Sold"))
    /\ [][\A item \in ItemNames, q \in Quantities, price \in PriceList :
             inventory_submit(item, q, price[1], price[2])
             => /\ general_ledger' = general_ledger
                /\ UNCHANGED <<receivables, payables, fixed_assets>>]_vars

\* stock was added again after a sale at cost: units are on hand at a unit
\* cost > 0 while the Balance Sheet shows a negative Inventory amount
C22_Witness ==
    /\ result.op = "inventory"
    /\ result.status = "success"
    /\ general_ledger # <<>>
    /\ SheetAmount(general_ledger, "Inventory") < 0
    /\ \E i \in 1..Len(inventory) :
          inventory[i].Quantity > 0 /\ inventory[i].Unit_Cost > 0

\* the accumulated depreciation of the whole register
RegisterDepreciation ==
    SumSeq([k \in 1..Len(fixed_assets) |-> fixed_assets[k].Accumulated_Depreciation])

\* C23: the accumulated depreciation summed over the fixed-asset register
\* equals the credits to Accumulated Depreciation in the ledger, which equal
\* the debits to Depreciation Expense.
C23_RegisterMatchesLedger ==
    /\ RegisterDepreciation = CreditsTo("Accumulated Depreciation")
    /\ CreditsTo("Accumulated Depreciation") = DebitsTo("Depreciation Expense")

\* one run has depreciated two assets
C23_Witness ==
    /\ Len(fixed_assets) = 2
    /\ fixed_assets[1].Accumulated_Depreciation # 0
    /\ fixed_assets[2].Accumulated_Depreciation # 0
    /\ RegisterDepreciation # 0
    /\ DebitsTo("Depreciation Expense") # 0

\* assets minus liabilities and equity of the uploaded balance sheet
BaselineGap ==
    (Uploaded(uploaded_bs, "Cash") + Uploaded(uploaded_bs, "Accounts Receivable")
       + Uploaded(uploaded_bs, "Inventory") + Uploaded(uploaded_bs, "Fixed Assets (Net)"))
    - (Uploaded(uploaded_bs, "Accounts Payable") + Uploaded(uploaded_bs, "Long-term Debt")
       + Uploaded(uploaded_bs, "Owner's Equity (Simplified)"))

\* C24: for every uploaded pair of statements and every setting of the
\* sliders the forecast has one balance sheet per year, and in each of them
\* Total Assets minus Total Liabilities & Equity is what it is in the
\* uploaded balance sheet: a balanced baseline gives balanced forecast years.
C24_ForecastKeepsBalance ==
    (uploaded_is # None /\ uploaded_bs # None) =>
      \A years \in ForecastYears, revenue_growth \in GrowthRates :
         LET balance_sheets ==
                 forecast_financials(uploaded_is[1], uploaded_bs[1], years,
                     revenue_growth, cogs_pct_revenue(uploaded_is[1]),
                     op_exp_pct_revenue(uploaded_is[1]))[2]
         IN  /\ Len(balance_sheets) = years
             /\ \A i \in 1..years :
                   /\ Minus(balance_sheets[i].Total_Assets,
                            balance_sheets[i].Total_Liabilities_Equity)
                        = Number(BaselineGap)
                   /\ BaselineGap = 0 =>
                        balance_sheets[i].Total_Assets
                          = balance_sheets[i].Total_Liabilities_Equity

\* a three-year forecast was run on a balanced balance sheet with a
\* Long-term Debt row and an income statement with revenue
C24_Witness ==
    /\ result.op = "forecast"
    /\ result.status = "shown"
    /\ result.detail = 3
    /\ BaselineGap = 0
    /\ Uploaded(uploaded_is, "Sales Revenue") > 0
    /\ Uploaded(uploaded_bs, "Long-term Debt") > 0
    /\ Uploaded(uploaded_bs, "Cash") > 0

====
